---- MODULE Spec2Model ----
(***************************************************************************)
(* A model of requests/sessions.py: the Session object, its per-request    *)
(* merge of session defaults with call arguments (merge_kwargs), the       *)
(* cookie reconciliation of Session.request, the pool handle and the       *)
(* snapshot export/restore.                                                *)
(*                                                                         *)
(* Python values are tagged records so that None, strings, numbers,        *)
(* booleans and mappings can live in one set:                              *)
(*   None, Str("x"), Num(0), Bool(FALSE), Map([k |-> Str("v")])            *)
(* A cookie jar is a set of cookie records, at most one per                *)
(* (name, domain, path) key.                                               *)
(***************************************************************************)
EXTENDS Integers, Sequences, FiniteSets, TLC

\* ------------------------------------------------------------------------
\* Python values
\* ------------------------------------------------------------------------

None == [t |-> "None"]

Str(s) == [t |-> "str", v |-> s]

Num(n) == [t |-> "int", v |-> n]

Bool(b) == [t |-> "bool", v |-> b]

Map(m) == [t |-> "map", v |-> m]

JarRef(j) == [t |-> "jar", v |-> j]

\* A header value given as a sequence of two items.
Pair(a, b) == [t |-> "seq", v |-> <<a, b>>]

\* A mapping object the caller keeps and passes by reference.
MapRef(n) == [t |-> "ref", v |-> n]

IsRef(x) == x.t = "ref"

Error(kind) == [t |-> "error", v |-> kind]

EmptyMap == Map(<<>>)

IsMap(x) == x.t = "map"

Keys(x) == DOMAIN x.v

\* hasattr(x, 'items')
HasItems(x) == x.t = "map"

\* isinstance(x, str)
IsStr(x) == x.t = "str"

\* ------------------------------------------------------------------------
\* Collaborators of sessions.py (requests.utils, requests.cookies)
\* ------------------------------------------------------------------------

\* utils.from_key_val_list: the key/value normalizer.  An absent input gives
\* the empty mapping, a mapping is returned as it is, any other shape is a
\* type error.
from_key_val_list(x) ==
    IF x = None THEN EmptyMap
    ELSE IF IsMap(x) THEN x
    ELSE Error("TypeKind")

\* utils.header_expand: a sequence-valued header is joined into its wire
\* form, a scalar value is left as it is.
header_expand(v) ==
    IF v.t = "seq" THEN Str(v.v[1] \o ", " \o v.v[2]) ELSE v

DefaultDomain == ""

DefaultPath == "/"

\* cookies.create_cookie: a cookie with the default domain and path.
create_cookie(name, value) ==
    [name |-> name, value |-> value, domain |-> DefaultDomain, path |-> DefaultPath]

CookieKey(c) == <<c.name, c.domain, c.path>>

\* cookies.cookiejar_from_dict: a new jar with one cookie per mapping entry.
cookiejar_from_dict(d) ==
    IF d = None THEN {} ELSE {create_cookie(n, d.v[n]) : n \in Keys(d)}

\* CookieJar.set_cookie: upsert by (name, domain, path).
set_cookie(jar, c) == {x \in jar : CookieKey(x) # CookieKey(c)} \cup {c}

\* cookies.remove_cookie_by_name: every cookie of that name goes, whatever
\* its domain and path.
remove_cookie_by_name(jar, name) == {x \in jar : x.name # name}

\* ------------------------------------------------------------------------
\* merge_kwargs
\* ------------------------------------------------------------------------

\* dict.update
DictUpdate(d, l) ==
    [k \in (DOMAIN d) \cup (DOMAIN l) |-> IF k \in DOMAIN l THEN l[k] ELSE d[k]]

\* del d[k] for every k in ks
DictDel(d, ks) == [k \in (DOMAIN d) \ ks |-> d[k]]

merge_kwargs_nodelete(local_kwarg, default_kwarg) ==
    IF default_kwarg = None THEN local_kwarg
    ELSE IF IsStr(local_kwarg) THEN local_kwarg
    ELSE IF local_kwarg = None THEN default_kwarg
    ELSE IF ~HasItems(default_kwarg) THEN local_kwarg
    ELSE LET d == from_key_val_list(default_kwarg)
             l == from_key_val_list(local_kwarg)
         IN  IF l.t = "error" THEN l
             ELSE Map(DictUpdate(d.v, l.v))

merge_kwargs_defaultwins(local_kwarg, default_kwarg) ==
    IF default_kwarg = None THEN local_kwarg
    ELSE IF IsStr(local_kwarg) THEN local_kwarg
    ELSE IF local_kwarg = None THEN default_kwarg
    ELSE IF ~HasItems(default_kwarg) THEN local_kwarg
    ELSE LET d == from_key_val_list(default_kwarg)
             l == from_key_val_list(local_kwarg)
             kwargs == DictUpdate(l.v, d.v)
         IN  IF l.t = "error" THEN l
             ELSE Map(DictDel(kwargs, {k \in DOMAIN l.v : l.v[k] = None}))

merge_kwargs_truthy(local_kwarg, default_kwarg) ==
    IF default_kwarg = None THEN local_kwarg
    ELSE IF IsStr(local_kwarg) THEN local_kwarg
    ELSE IF local_kwarg \in {None, Bool(FALSE), Num(0)} THEN default_kwarg
    ELSE IF ~HasItems(default_kwarg) THEN local_kwarg
    ELSE LET d == from_key_val_list(default_kwarg)
             l == from_key_val_list(local_kwarg)
             kwargs == DictUpdate(d.v, l.v)
         IN  IF l.t = "error" THEN l
             ELSE Map(DictDel(kwargs, {k \in DOMAIN l.v : l.v[k] = None}))

merge_kwargs_nostr(local_kwarg, default_kwarg) ==
    IF default_kwarg = None THEN local_kwarg
    ELSE IF local_kwarg = None THEN default_kwarg
    ELSE IF ~HasItems(default_kwarg) THEN local_kwarg
    ELSE LET d == from_key_val_list(default_kwarg)
             l == from_key_val_list(local_kwarg)
         IN  IF l.t = "error" THEN l
             ELSE Map(DictDel(DictUpdate(d.v, l.v), {k \in DOMAIN l.v : l.v[k] = None}))

\* Lines 29-54.  A non-mapping local value met with a mapping default is
\* rejected by the normalizer (the error value stands for the raise).
merge_kwargs(local_kwarg, default_kwarg) ==
    IF default_kwarg = None THEN local_kwarg
    ELSE IF IsStr(local_kwarg) THEN local_kwarg
    ELSE IF local_kwarg = None THEN default_kwarg
    ELSE IF ~HasItems(default_kwarg) THEN local_kwarg
    ELSE LET d == from_key_val_list(default_kwarg)
             l == from_key_val_list(local_kwarg)
             kwargs == DictUpdate(d.v, l.v)
         IN  IF l.t = "error" THEN l
             ELSE Map(DictDel(kwargs, {k \in DOMAIN l.v : l.v[k] = None}))

\* ------------------------------------------------------------------------
\* Bounds and input sets
\* ------------------------------------------------------------------------

\* Sessions of the model.
SIDS == {1, 2}

\* A jar owned by the caller, outside every session.
CallerJar == 3

JARIDS == SIDS \cup {CallerJar}

\* args['cookies'] of a call that built its own jar (line 272).
FreshJar == 0

\* Pool handles built in one run (ids 1..MaxHandles).
MaxHandles == 3

\* Concurrent request flows of the threaded specification.
FLOWS == {1, 2}

\* close() calls in a row counted on one session.
MaxCloses == 2

\* ------------------------------------------------------------------------
\* State
\* ------------------------------------------------------------------------

VARIABLES
    sess,        \* sess[s]: the attributes of Session s (cookies is a jar id)
    jars,        \* jars[j]: the cookies held by jar object j
    nextHandle,  \* id of the next pool handle to be built
    safe_mode,   \* the process-wide safe-mode toggle
    snapshot,    \* the last exported snapshot (None before any export)
    op,          \* the last operation: [name, sid]
    call,        \* the keyword arguments of the last request() call
    args,        \* the args of the last request() call after the 'args' hook
    ret,         \* what the last call gave its caller
    given,       \* given[s]: names of the cookies earlier calls on s supplied
    unset,       \* the last key a call mapped to None: [sid, attr, key]
    pc,          \* threaded specification: position of each flow in request()
    flow,        \* threaded specification: locals of each flow
    raced,       \* threaded specification: flows whose iteration was disturbed
    mLocal,      \* merge specification: local_kwarg
    mDefault,    \* merge specification: default_kwarg
    mResult,     \* merge specification: the value returned (Unset before)
    scope,       \* scope[s]: the with-block around Session s: [st, closed]
    closes,      \* closes[s]: close() calls on s in a row, up to MaxCloses
    table,       \* the defaults table all sessions are seeded from
    aliased,     \* aliased[s]: config keys of s whose value is the table's own object
    ctor,        \* ctor[s]: the arguments Session s was constructed with
    hookIn,      \* the args the last request() call handed to the 'args' hook
    trace,       \* the stages the last request() call went through, in order
    owned        \* owned[n]: the content of the caller's own mapping object n

vars == <<sess, jars, nextHandle, safe_mode, snapshot, op, call, args, ret, given, unset,
          pc, flow, raced, mLocal, mDefault, mResult, scope, closes,
          table, aliased, ctor, hookIn, trace, owned>>

sessionVars == <<sess, jars, nextHandle, safe_mode, snapshot, op, call, args, ret, given, unset>>

threadVars == <<pc, flow, raced>>

mergeVars == <<mLocal, mDefault, mResult>>

scopeVars == <<scope, closes>>

configVars == <<table, aliased, ctor>>

pipeVars == <<hookIn, trace>>

callerVars == <<owned>>

Unset == [t |-> "unset"]

\* ------------------------------------------------------------------------
\* Session construction
\* ------------------------------------------------------------------------

\* Line 64-66.
attrs == {"headers", "cookies", "auth", "timeout", "proxies", "hooks",
          "params", "config", "verify", "cert", "prefetch"}

\* requests.defaults.defaults: the documented configuration defaults, one of
\* them a mutable mapping.
defaults ==
    Map([pool_connections |-> Num(10), pool_maxsize |-> Num(10),
         base_headers |-> Map([Agent |-> Str("python-requests")])])

\* Python truthiness of a value.
Falsy(x) == x \in {None, EmptyMap, Bool(FALSE), Num(0), Str("")}

\* x or []
OrEmpty(x) == IF Falsy(x) THEN EmptyMap ELSE x

\* dict.get
DictGet(d, k) == IF k \in DOMAIN d.v THEN d.v[k] ELSE None

\* dict.setdefault for every entry of dflt
DictSetDefaults(d, dflt) ==
    [k \in (DOMAIN d) \cup (DOMAIN dflt) |-> IF k \in DOMAIN d THEN d[k] ELSE dflt[k]]

init_poolmanager_swapped(config, id) ==
    [id |-> id,
     num_pools |-> DictGet(config, "pool_maxsize"),
     maxsize |-> DictGet(config, "pool_connections"),
     pools |-> {}]

\* Lines 143-147: a new PoolManager, holding no connection yet.
init_poolmanager(config, id) ==
    [id |-> id,
     num_pools |-> DictGet(config, "pool_connections"),
     maxsize |-> DictGet(config, "pool_maxsize"),
     pools |-> {}]

deepcopy_same(v) == [v |-> v, fresh |-> FALSE]

\* copy.deepcopy (line 133): an equal value that shares no mutable object
\* with v.
deepcopy(v) == [v |-> v, fresh |-> TRUE]

\* Lines 118, 132-133: the config of a new session.
SeededConfig(kw) ==
    Map(DictSetDefaults(from_key_val_list(OrEmpty(kw.config)).v,
                        [k \in Keys(defaults) |-> deepcopy(defaults.v[k]).v]))

\* Lines 132-133: the keys of a new session's config whose value is the very
\* object the defaults table holds (mutable values that were not copied).
SeededAliases(kw) ==
    {k \in Keys(defaults) \ Keys(from_key_val_list(OrEmpty(kw.config))) :
        IsMap(defaults.v[k]) /\ ~deepcopy(defaults.v[k]).fresh}

\* Lines 86-135: the attributes set by __init__ (the jar itself is built by
\* SessionJar below and kept in jars[jar]).
Session(kw, jar, handle) ==
    LET config == SeededConfig(kw)
    IN  [headers |-> from_key_val_list(OrEmpty(kw.headers)),
         cookies |-> jar,
         auth |-> kw.auth,
         timeout |-> kw.timeout,
         proxies |-> from_key_val_list(OrEmpty(kw.proxies)),
         hooks |-> from_key_val_list(OrEmpty(kw.hooks)),
         params |-> from_key_val_list(OrEmpty(kw.params)),
         config |-> config,
         verify |-> kw.verify,
         cert |-> kw.cert,
         prefetch |-> kw.prefetch,
         poolmanager |-> init_poolmanager(config, handle)]

\* Lines 138-141 for a mapping (or absent) cookies argument.
SessionJar(kw) == cookiejar_from_dict(kw.cookies)

BaseCtor ==
    [headers |-> None, cookies |-> None, auth |-> None, timeout |-> None,
     proxies |-> None, hooks |-> None, params |-> None, config |-> None,
     prefetch |-> Bool(TRUE), verify |-> Bool(TRUE), cert |-> None]

RichCtor ==
    [headers |-> Map([Accept |-> Str("text"), Lang |-> Str("ja")]),
     cookies |-> Map([a |-> Str("1"), b |-> Str("2")]),
     auth |-> Str("user:pw"),
     timeout |-> Num(5),
     proxies |-> Map([http |-> Str("proxy:3128")]),
     hooks |-> Map([args |-> Str("session_rewrite"), response |-> Str("session_log")]),
     params |-> Map([q |-> Str("s")]),
     config |-> Map([pool_maxsize |-> Num(20)]),
     prefetch |-> Bool(TRUE), verify |-> Bool(TRUE), cert |-> Str("client.pem")]

CtorInputs == {BaseCtor, RichCtor}

\* ------------------------------------------------------------------------
\* Session.request
\* ------------------------------------------------------------------------

\* str(method).upper() on the method names in use.
Upper == [get |-> "GET", options |-> "OPTIONS", head |-> "HEAD", post |-> "POST",
          put |-> "PUT", patch |-> "PATCH", delete |-> "DELETE"]

EmptyList == [t |-> "list", v |-> <<>>]

CallHooks_sessionwins(s, kw) ==
    LET hooks == IF kw.hooks = None THEN EmptyMap ELSE kw.hooks
    IN  Map(DictSetDefaults(sess[s].hooks.v, hooks.v))

\* Lines 239-241: the session's hooks are defaults for the call's hooks.
CallHooks(s, kw) ==
    LET hooks == IF kw.hooks = None THEN EmptyMap ELSE kw.hooks
    IN  Map(DictSetDefaults(hooks.v, sess[s].hooks.v))

\* Lines 234, 243-246: every header value is expanded.
CallHeaders(kw) ==
    LET headers == IF kw.headers = None THEN EmptyMap ELSE kw.headers
    IN  Map([k \in DOMAIN headers.v |-> header_expand(headers.v[k])])

\* Line 237.
CallPrefetch(s, kw) == IF kw.prefetch # None THEN kw.prefetch ELSE sess[s].prefetch

\* Lines 248-266: the provisional args.
ProvisionalArgs(s, kw) ==
    [method |-> Upper[kw.method],
     url |-> kw.url,
     data |-> IF kw.data = None THEN EmptyList ELSE kw.data,
     params |-> from_key_val_list(IF kw.params = None THEN EmptyMap ELSE kw.params),
     headers |-> from_key_val_list(CallHeaders(kw)),
     cookies |-> kw.cookies,
     files |-> IF kw.files = None THEN EmptyList ELSE kw.files,
     auth |-> kw.auth,
     hooks |-> from_key_val_list(CallHooks(s, kw)),
     timeout |-> kw.timeout,
     allow_redirects |-> kw.allow_redirects,
     proxies |-> from_key_val_list(kw.proxies),
     config |-> from_key_val_list(kw.config),
     prefetch |-> CallPrefetch(s, kw),
     verify |-> kw.verify,
     cert |-> kw.cert,
     poolmanager |-> sess[s].poolmanager.id]

\* isinstance(cookies, cookielib.CookieJar)
IsJar(cookies) == cookies.t = "jar"

\* Line 277 (the empty set when dead_cookies stays None).
dead_cookies(cookies) ==
    IF IsJar(cookies) \/ cookies = None THEN {}
    ELSE {name \in Keys(cookies) : cookies.v[name] = None}

RECURSIVE set_cookies(_, _)
\* Lines 279-280: every cookie of cs is upserted into jar.
set_cookies(jar, cs) ==
    IF cs = {} THEN jar
    ELSE LET c == CHOOSE c \in cs : TRUE
         IN  set_cookies(set_cookie(jar, c), cs \ {c})

RECURSIVE remove_cookies(_, _)
\* Lines 283-285.
remove_cookies(jar, names) ==
    IF names = {} THEN jar
    ELSE LET name == CHOOSE name \in names : TRUE
         IN  remove_cookie_by_name(remove_cookies(jar, names \ {name}), name)

\* Lines 271-272: the jar the call works on, before the session's cookies.
CallJar(kw) ==
    IF IsJar(kw.cookies) THEN jars[kw.cookies.v] ELSE cookiejar_from_dict(kw.cookies)

ReconciledJar_purgefirst(s, kw) ==
    set_cookies(remove_cookies(CallJar(kw), dead_cookies(kw.cookies)),
                jars[sess[s].cookies])

ReconciledJar_callwins(s, kw) ==
    remove_cookies(set_cookies(jars[sess[s].cookies], CallJar(kw)),
                   dead_cookies(kw.cookies))

\* Lines 268-285: the content of args['cookies'] after reconciliation.
ReconciledJar(s, kw) ==
    remove_cookies(set_cookies(CallJar(kw), jars[sess[s].cookies]),
                   dead_cookies(kw.cookies))

\* The object args['cookies'] is: the caller's jar, or a new one.
CallJarObj(kw) == IF IsJar(kw.cookies) THEN kw.cookies.v ELSE FreshJar

\* Lines 287-295: every tracked attribute but cookies is merged; jar is the
\* content of args['cookies'] after the reconciliation.
MergedArgsWith(s, kw, jar) ==
    LET a == [ProvisionalArgs(s, kw) EXCEPT
                 !.cookies = [obj |-> CallJarObj(kw), val |-> jar]]
    IN  [f \in DOMAIN a |->
            IF f \in attrs \ {"cookies"} THEN merge_kwargs(a[f], sess[s][f]) ELSE a[f]]

\* Lines 268-295.
MergedArgs(s, kw) == MergedArgsWith(s, kw, ReconciledJar(s, kw))

\* What a registered handler returns for the args it is given: the handlers
\* named *_rewrite return a changed mapping, every other handler returns
\* nothing (a no-op).
HookCall(handler, a) ==
    IF handler \in {Str("session_rewrite"), Str("call_rewrite")}
    THEN [a EXCEPT !.url = "hooked"]
    ELSE a

\* hooks.dispatch_hook: the handlers registered for the event are applied.
dispatch_hook(key, hooks, hook_data) ==
    IF key \in Keys(hooks) THEN HookCall(hooks.v[key], hook_data) ELSE hook_data

HookInput_early(s, kw) ==
    [ProvisionalArgs(s, kw) EXCEPT !.cookies = [obj |-> CallJarObj(kw), val |-> CallJar(kw)]]

\* Line 298: what dispatch_hook is handed, the args as they are after the
\* cookie loop and the merge loop.
HookInput(s, kw) == MergedArgs(s, kw)

\* Line 298.
HookedArgs(s, kw) ==
    LET a == HookInput(s, kw) IN dispatch_hook("args", a.hooks, a)

\* Line 298, for a call whose jar was filled step by step.
HookedArgsWith(s, kw, jar) ==
    LET a == MergedArgsWith(s, kw, jar) IN dispatch_hook("args", a.hooks, a)

\* The normalizer rejected one of the call's arguments (lines 252-261).
RequestRaises(s, kw) ==
    LET a == ProvisionalArgs(s, kw)
    IN  \E f \in {"params", "headers", "hooks", "proxies", "config"} : a[f].t = "error"

NoArgs == [t |-> "unset"]

NoCall == [t |-> "unset"]

NoReturn == [kind |-> "none", error |-> "", sid |-> 0, sent |-> FALSE]

\* Request.send: the transport either delivers a response or raises.
send(s, kw) ==
    IF kw.outcome = "ok"
    THEN [kind |-> "response", error |-> "", sid |-> s, sent |-> TRUE]
    ELSE [kind |-> "raised", error |-> kw.outcome, sid |-> s, sent |-> TRUE]

\* safe_mode.catch_exceptions_if_in_safe_mode: with safe mode active a
\* transport error is caught and the response returned carries it; with safe
\* mode inactive it propagates.
catch_exceptions_if_in_safe_mode(r, safe) ==
    IF r.kind = "raised" /\ safe THEN [r EXCEPT !.kind = "response"] ELSE r

send_request_undecorated(s, kw, safe) == send(s, kw)

\* Lines 313-319: r.send() under the safe-mode decorator.
send_request(s, kw, safe) == catch_exceptions_if_in_safe_mode(send(s, kw), safe)

\* Lines 268-311: the stages of one call in the order the code runs them;
\* line 307 returns before the send.
RequestTrace(kw) ==
    <<"cookies", "merge", "hook", "construct">>
    \o (IF ~kw.return_response.v THEN <<>> ELSE <<"send">>)

\* Lines 301-311.
RequestReturn(s, kw) ==
    IF ~kw.return_response.v
    THEN [kind |-> "request", error |-> "", sid |-> s, sent |-> FALSE]
    ELSE send_request(s, kw, safe_mode)

JarsAfter_leak(s, kw) ==
    [jars EXCEPT ![sess[s].cookies] = ReconciledJar(s, kw)]

JarsAfter_copy(s, kw) == jars

\* Lines 271-285, the jars after the call: a jar the caller passed has been
\* written in place.
JarsAfter(s, kw) ==
    IF IsJar(kw.cookies)
    THEN [jars EXCEPT ![kw.cookies.v] = ReconciledJar(s, kw)]
    ELSE jars

\* The session after the call: a request that was sent successfully leaves
\* its connection in the pool handle.
SessAfter(s, kw, r) ==
    IF r.kind = "response" /\ r.error = ""
    THEN [sess EXCEPT ![s].poolmanager.pools = @ \cup {kw.url}]
    ELSE sess

\* The names of the cookies a call's mapping supplies with a value.
SuppliedNames(cookies) ==
    IF IsJar(cookies) \/ cookies = None THEN {}
    ELSE {name \in Keys(cookies) : cookies.v[name] # None}

\* The attributes merge_kwargs merges key by key.
MergedMaps == {"headers", "params", "proxies", "hooks", "config"}

\* The (attribute, key) pairs a call maps to None.
UnsetKeys(kw) ==
    {<<f, k>> \in MergedMaps \X {"Accept", "q", "http", "args"} :
        /\ IsMap(kw[f])
        /\ k \in Keys(kw[f])
        /\ kw[f].v[k] = None}

NoUnset == [sid |-> 0, attr |-> "", key |-> ""]

\* Line 178: allow_redirects is True when the caller leaves it out.
SignatureDefaults(kwargs) ==
    [kwargs EXCEPT !.allow_redirects = IF @ = Unset THEN Bool(TRUE) ELSE @]

SetDefaultRedirects_force(kwargs, dflt) ==
    [kwargs EXCEPT !.allow_redirects = Bool(dflt)]

\* kwargs.setdefault('allow_redirects', dflt)
SetDefaultRedirects(kwargs, dflt) ==
    [kwargs EXCEPT !.allow_redirects = IF @ = Unset THEN Bool(dflt) ELSE @]

\* The keyword arguments with the caller's mapping objects read.
Deref(kw) ==
    [kw EXCEPT !.hooks = IF IsRef(@) THEN owned[@.v] ELSE @,
               !.headers = IF IsRef(@) THEN owned[@.v] ELSE @]

OwnedAfter_copy(s, kw) == owned

\* Lines 239-246: hooks.setdefault and headers[k] = ... write into the
\* mappings the caller passed.
OwnedAfter(s, kw) ==
    [n \in DOMAIN owned |->
        IF kw.hooks = MapRef(n) THEN CallHooks(s, Deref(kw))
        ELSE IF kw.headers = MapRef(n) THEN CallHeaders(Deref(kw))
        ELSE owned[n]]

\* Lines 170-311, as one step.  name is the public operation the caller
\* used, kwargs what the caller passed to it, kw what request() received.
RequestStep(name, s, kwargs, kw0) ==
    LET kw == Deref(SignatureDefaults(kw0))
    IN  /\ op' = [name |-> name, sid |-> s]
        /\ call' = kwargs
        /\ given' = [given EXCEPT ![s] = @ \cup SuppliedNames(kw.cookies)]
        /\ unset' = IF UnsetKeys(kw) = {} THEN unset
                     ELSE LET u == CHOOSE u \in UnsetKeys(kw) : TRUE
                          IN  [sid |-> s, attr |-> u[1], key |-> u[2]]
        /\ IF RequestRaises(s, kw)
           THEN /\ args' = NoArgs
                /\ hookIn' = NoArgs
                /\ trace' = <<>>
                /\ ret' = [kind |-> "raised", error |-> "TypeKind", sid |-> s, sent |-> FALSE]
                /\ UNCHANGED <<sess, jars>>
           ELSE /\ args' = HookedArgs(s, kw)
                /\ hookIn' = HookInput(s, kw)
                /\ trace' = RequestTrace(kw)
                /\ ret' = RequestReturn(s, kw)
                /\ jars' = JarsAfter(s, kw)
                /\ sess' = SessAfter(s, kw, RequestReturn(s, kw))
        /\ UNCHANGED <<nextHandle, safe_mode, snapshot>>
        /\ UNCHANGED threadVars
        /\ UNCHANGED mergeVars
        /\ owned' = OwnedAfter(s, kw0)
        /\ UNCHANGED configVars
        /\ closes' = [closes EXCEPT ![s] = 0]
        /\ UNCHANGED scope

\* Session.request called directly.
request(s, kwargs) == RequestStep("request", s, kwargs, kwargs)

\* Lines 321-334.
get(s, kwargs) ==
    RequestStep("get", s, kwargs, [SetDefaultRedirects(kwargs, TRUE) EXCEPT !.method = "get"])

\* Lines 336-349.
options(s, kwargs) ==
    RequestStep("options", s, kwargs, [SetDefaultRedirects(kwargs, TRUE) EXCEPT !.method = "options"])

\* Lines 351-364.
head(s, kwargs) ==
    RequestStep("head", s, kwargs, [SetDefaultRedirects(kwargs, FALSE) EXCEPT !.method = "head"])

\* Lines 366-380.
post(s, kwargs) == RequestStep("post", s, kwargs, [kwargs EXCEPT !.method = "post"])

\* Lines 382-396.
put(s, kwargs) == RequestStep("put", s, kwargs, [kwargs EXCEPT !.method = "put"])

\* Lines 398-412.
patch(s, kwargs) == RequestStep("patch", s, kwargs, [kwargs EXCEPT !.method = "patch"])

\* Lines 414-426.
delete(s, kwargs) == RequestStep("delete", s, kwargs, [kwargs EXCEPT !.method = "delete"])

RequestOps == {"request", "get", "options", "head", "post", "put", "patch", "delete"}

\* ------------------------------------------------------------------------
\* The other operations on a Session
\* ------------------------------------------------------------------------

Quiet(name, s) ==
    /\ op' = [name |-> name, sid |-> s]
    /\ call' = NoCall
    /\ args' = NoArgs
    /\ ret' = NoReturn
    /\ UNCHANGED <<given, unset>>
    /\ UNCHANGED threadVars
    /\ UNCHANGED mergeVars
    /\ hookIn' = NoArgs
    /\ trace' = <<>>

\* PoolManager.clear(): every pooled connection is dropped.
clear(poolmanager) == [poolmanager EXCEPT !.pools = {}]

closed_keep(session) == session

\* Lines 158-168: the session after close().
closed(session) == [session EXCEPT !.poolmanager = clear(@)]

\* One more close() call counted, up to MaxCloses.
Counted(n, k) == IF n + k > MaxCloses THEN MaxCloses ELSE n + k

\* Lines 158-168.
close(s) ==
    /\ sess' = [sess EXCEPT ![s] = closed(@)]
    /\ closes' = [closes EXCEPT ![s] = Counted(@, 1)]
    /\ Quiet("close", s)
    /\ UNCHANGED callerVars
    /\ UNCHANGED configVars
    /\ UNCHANGED <<jars, nextHandle, safe_mode, snapshot, scope>>

\* Lines 152-153: the body of a with-block around Session s begins.
enter(s) ==
    /\ scope[s].st # "in"
    /\ scope' = [scope EXCEPT ![s] = [st |-> "in", closed |-> 0]]
    /\ Quiet("enter", s)
    /\ UNCHANGED callerVars
    /\ UNCHANGED configVars
    /\ UNCHANGED <<sess, jars, nextHandle, safe_mode, snapshot, closes>>

exited_cleanonly(session, exc) ==
    IF exc = None THEN [session |-> closed(session), closes |-> 1]
    ELSE [session |-> session, closes |-> 0]

\* Lines 155-156: __exit__ calls close() whatever the exception
\* information it is handed.
exited(session, exc) == [session |-> closed(session), closes |-> 1]

\* The with statement leaves the block around Session s: normally (exc is
\* None) or by an exception of the body, which __exit__ lets through since
\* it returns None.
exit(s, exc) ==
    LET r == exited(sess[s], exc)
    IN  /\ scope[s].st = "in"
        /\ sess' = [sess EXCEPT ![s] = r.session]
        /\ scope' = [scope EXCEPT ![s] = [st |-> IF exc = None THEN "left" ELSE "raised",
                                          closed |-> r.closes]]
        /\ closes' = [closes EXCEPT ![s] = Counted(@, r.closes)]
        /\ Quiet("exit", s)
        /\ UNCHANGED callerVars
        /\ UNCHANGED configVars
        /\ UNCHANGED <<jars, nextHandle, safe_mode, snapshot>>

\* Client code: session.config[k] = v, an in-place change of the config.
SetConfig(s, k, v) ==
    /\ DictGet(sess[s].config, k) # v
    /\ sess' = [sess EXCEPT ![s].config = Map(DictUpdate(@.v, [x \in {k} |-> v]))]
    /\ Quiet("setconfig", s)
    /\ UNCHANGED callerVars
    /\ UNCHANGED configVars
    /\ UNCHANGED <<jars, nextHandle, safe_mode, snapshot>>
    /\ closes' = [closes EXCEPT ![s] = 0]
    /\ UNCHANGED scope

\* The mapping m with m[key] = v written in place.
Written(m, key, v) == Map(DictUpdate(m.v, [x \in {key} |-> v]))

\* Client code: session.config[k][key] = v, an in-place change of a mutable
\* config value.  Whoever holds the same object sees the change: the
\* defaults table and the other sessions, for a value that was not copied.
TouchConfig(s, k, key, v) ==
    /\ k \in Keys(sess[s].config)
    /\ IsMap(sess[s].config.v[k])
    /\ DictGet(sess[s].config.v[k], key) # v
    /\ sess' = [u \in SIDS |->
                  IF u = s \/ (k \in aliased[s] /\ k \in aliased[u])
                  THEN [sess[u] EXCEPT !.config = Written(@, k, Written(@.v[k], key, v))]
                  ELSE sess[u]]
    /\ table' = IF k \in aliased[s] THEN Written(table, k, Written(table.v[k], key, v))
                ELSE table
    /\ closes' = [closes EXCEPT ![s] = 0]
    /\ Quiet("touchconfig", s)
    /\ UNCHANGED callerVars
    /\ UNCHANGED <<jars, nextHandle, safe_mode, snapshot, scope, aliased, ctor>>

\* Client code: the caller writes mapping[key] = v into its own mapping
\* object n between calls.
OwnWrite(n, key, v) ==
    /\ DictGet(owned[n], key) # v
    /\ owned' = [owned EXCEPT ![n] = Written(@, key, v)]
    /\ Quiet("ownwrite", 0)
    /\ UNCHANGED <<sess, jars, nextHandle, safe_mode, snapshot>>
    /\ UNCHANGED scopeVars
    /\ UNCHANGED configVars

\* Client code: session.cookies.clear() (see the comment at line 275).
ClearCookies(s) ==
    /\ jars[sess[s].cookies] # {}
    /\ jars' = [jars EXCEPT ![sess[s].cookies] = {}]
    /\ Quiet("clearcookies", s)
    /\ UNCHANGED callerVars
    /\ UNCHANGED configVars
    /\ UNCHANGED <<sess, nextHandle, safe_mode, snapshot>>
    /\ closes' = [closes EXCEPT ![s] = 0]
    /\ UNCHANGED scope

\* Client code: session.cookies.set_cookie(c).
StoreCookie(s, c) ==
    /\ c \notin jars[sess[s].cookies]
    /\ jars' = [jars EXCEPT ![sess[s].cookies] = set_cookie(@, c)]
    /\ Quiet("storecookie", s)
    /\ UNCHANGED callerVars
    /\ UNCHANGED configVars
    /\ UNCHANGED <<sess, nextHandle, safe_mode, snapshot>>
    /\ closes' = [closes EXCEPT ![s] = 0]
    /\ UNCHANGED scope

\* The process-wide safe-mode toggle is switched.
SetSafeMode(b) ==
    /\ safe_mode # b
    /\ safe_mode' = b
    /\ Quiet("safemode", 0)
    /\ UNCHANGED callerVars
    /\ UNCHANGED configVars
    /\ UNCHANGED <<sess, jars, nextHandle, snapshot>>
    /\ UNCHANGED scopeVars

\* Lines 428-429: the exported state, in its persisted form (the jar is
\* stored by content).
getstate(s) ==
    [t |-> "state",
     v |-> [attr \in attrs |->
               IF attr = "cookies" THEN jars[sess[s].cookies] ELSE sess[s][attr]]]

\* A snapshot of Session s is exported.
Export(s) ==
    /\ snapshot' = [from |-> s, handle |-> sess[s].poolmanager.id, state |-> getstate(s)]
    /\ Quiet("getstate", s)
    /\ UNCHANGED callerVars
    /\ UNCHANGED configVars
    /\ UNCHANGED <<sess, jars, nextHandle, safe_mode>>
    /\ closes' = [closes EXCEPT ![s] = 0]
    /\ UNCHANGED scope

setstate_keeppool(s, state, handle) ==
    [f \in DOMAIN sess[s] |->
        IF f = "cookies" THEN s
        ELSE IF f = "poolmanager" THEN sess[s].poolmanager
        ELSE state.v[f]]

\* Lines 431-435: every attribute of the state is set, then the pool handle
\* is built anew from the restored config.  The restored jar is a new jar
\* object, held at the restored session's own jar id.
setstate(s, state, handle) ==
    [f \in DOMAIN sess[s] |->
        IF f = "cookies" THEN s
        ELSE IF f = "poolmanager" THEN init_poolmanager(state.v["config"], handle)
        ELSE state.v[f]]

\* Session s is restored from the exported snapshot.
Restore(s) ==
    /\ snapshot # None
    /\ nextHandle <= MaxHandles
    /\ sess' = [sess EXCEPT ![s] = setstate(s, snapshot.state, nextHandle)]
    /\ jars' = [jars EXCEPT ![s] = snapshot.state.v["cookies"]]
    /\ nextHandle' = nextHandle + 1
    /\ Quiet("setstate", s)
    /\ UNCHANGED callerVars
    /\ aliased' = [aliased EXCEPT ![s] = {}]
    /\ UNCHANGED <<table, ctor>>
    /\ UNCHANGED <<safe_mode, snapshot>>
    /\ closes' = [closes EXCEPT ![s] = 0]
    /\ UNCHANGED scope

\* ------------------------------------------------------------------------
\* Inputs
\* ------------------------------------------------------------------------

BaseCall ==
    [method |-> "get", url |-> "http://h/", params |-> None, data |-> None,
     headers |-> None, cookies |-> None, files |-> None, auth |-> None,
     timeout |-> None, allow_redirects |-> Unset, proxies |-> None,
     hooks |-> None, return_response |-> Bool(TRUE), config |-> None,
     prefetch |-> None, verify |-> None, cert |-> None, outcome |-> "ok"]

CookieArgs ==
    {Map([b |-> None, c |-> Str("3")]),
     Map([a |-> Str("9")]),
     Map([c |-> Str("3")]),
     Map([c |-> None]),
     JarRef(CallerJar)}

HeaderArgs == {Map([Accept |-> None]), Map([Accept |-> Str("json"), X |-> Str("1")])}

ParamArgs == {Map([q |-> None, r |-> Str("t")])}

ProxyArgs == {Map([http |-> None]), Map([https |-> Str("proxy2:3128")]), Num(5)}

ConfigArgs == {Map([pool_maxsize |-> Num(5)])}

HookArgs ==
    {Map([args |-> Str("call_keep")]),
     Map([response |-> Str("call_log")]),
     Map([args |-> None])}

ScalarArgs == {Bool(FALSE), Num(0), Str("literal")}

\* Calls that override one session default each.
DefaultsCalls ==
    {BaseCall}
    \cup {[BaseCall EXCEPT !.headers = m] : m \in HeaderArgs}
    \cup {[BaseCall EXCEPT !.params = m] : m \in ParamArgs}
    \cup {[BaseCall EXCEPT !.proxies = m] : m \in ProxyArgs}
    \cup {[BaseCall EXCEPT !.config = m] : m \in ConfigArgs}
    \cup {[BaseCall EXCEPT !.hooks = m] : m \in HookArgs}
    \cup {[BaseCall EXCEPT !.auth = x] : x \in ScalarArgs}
    \cup {[BaseCall EXCEPT !.timeout = x] : x \in ScalarArgs}
    \cup {[BaseCall EXCEPT !.verify = x] : x \in ScalarArgs}
    \cup {[BaseCall EXCEPT !.cert = x] : x \in ScalarArgs}
    \cup {[BaseCall EXCEPT !.prefetch = x] : x \in ScalarArgs}
    \cup {[BaseCall EXCEPT !.return_response = Bool(FALSE)]}

VerbInputs ==
    {[BaseCall EXCEPT !.allow_redirects = r, !.outcome = o] :
        r \in {Unset, Bool(TRUE), Bool(FALSE)}, o \in {"ok", "TransportError"}}

PoolKeys == {"pool_connections", "pool_maxsize"}

PoolSizes == {Num(20)}

ForeignCookies ==
    {[name |-> "b", value |-> Str("7"), domain |-> "ex.com", path |-> "/"]}

CallerCookies == {create_cookie("z", Str("26"))}

\* The mapping objects the caller keeps between calls.
CallerMaps ==
    [hooks |-> Map([response |-> Str("call_log")]),
     headers |-> Map([Accept |-> Pair("text", "json"), X |-> Str("1")])]

\* What the caller writes into its mappings between calls.
CallerWrites ==
    {<<"hooks", "args", Str("call_keep")>>, <<"headers", "Accept", Pair("text", "xml")>>}

\* Calls that pass the caller's own mapping objects.
CallerCalls ==
    {BaseCall,
     [BaseCall EXCEPT !.hooks = MapRef("hooks")],
     [BaseCall EXCEPT !.headers = MapRef("headers")],
     [BaseCall EXCEPT !.hooks = MapRef("hooks"), !.headers = MapRef("headers")],
     [BaseCall EXCEPT !.hooks = MapRef("hooks"), !.return_response = Bool(FALSE)]}

\* ------------------------------------------------------------------------
\* The specification of the sessions
\* ------------------------------------------------------------------------

IdleFlow == [sid |-> 0, kw |-> NoCall, jar |-> {}, todo |-> {}]

InitThreads ==
    /\ pc = [f \in FLOWS |-> "idle"]
    /\ flow = [f \in FLOWS |-> IdleFlow]
    /\ raced = {}

InitMergeIdle ==
    /\ mLocal = None
    /\ mDefault = None
    /\ mResult = Unset

\* Session 1 is built with either set of constructor arguments, session 2
\* with the defaults.
CtorChoices == {[s \in SIDS |-> IF s = 1 THEN c ELSE BaseCtor] : c \in CtorInputs}

InitSessions ==
    \E c \in CtorChoices :
        /\ sess = [s \in SIDS |-> Session(c[s], s, s)]
        /\ jars = [j \in JARIDS |-> IF j \in SIDS THEN SessionJar(c[j]) ELSE CallerCookies]
        /\ nextHandle = Cardinality(SIDS) + 1
        /\ safe_mode = FALSE
        /\ snapshot = None
        /\ op = [name |-> "init", sid |-> 0]
        /\ call = NoCall
        /\ args = NoArgs
        /\ ret = NoReturn
        /\ given = [s \in SIDS |-> {}]
        /\ unset = NoUnset
        /\ scope = [s \in SIDS |-> [st |-> "out", closed |-> 0]]
        /\ closes = [s \in SIDS |-> 0]
        /\ table = defaults
        /\ aliased = [s \in SIDS |-> SeededAliases(c[s])]
        /\ ctor = c
        /\ hookIn = NoArgs
        /\ trace = <<>>
        /\ owned = CallerMaps

Init == InitSessions /\ InitThreads /\ InitMergeIdle

\* Requests with every shape of the cookies argument, between changes the
\* client makes to the session jars.
CookieCalls == {BaseCall} \cup {[BaseCall EXCEPT !.cookies = c] : c \in CookieArgs}

NextCookies ==
    \/ \E s \in SIDS, kwargs \in CookieCalls : request(s, kwargs)
    \/ \E s \in SIDS : ClearCookies(s)
    \/ \E s \in SIDS, c \in ForeignCookies : StoreCookie(s, c)

SpecCookies == Init /\ [][NextCookies]_vars

\* Requests that override the session defaults.
NextDefaults ==
    \E s \in SIDS, kwargs \in DefaultsCalls : request(s, kwargs)

SpecDefaults == Init /\ [][NextDefaults]_vars

\* The verb methods, with and without safe mode.
NextVerbs ==
    \/ \E s \in SIDS, kwargs \in VerbInputs : get(s, kwargs)
    \/ \E s \in SIDS, kwargs \in VerbInputs : options(s, kwargs)
    \/ \E s \in SIDS, kwargs \in VerbInputs : head(s, kwargs)
    \/ \E s \in SIDS, kwargs \in VerbInputs : post(s, kwargs)
    \/ \E s \in SIDS, kwargs \in VerbInputs : put(s, kwargs)
    \/ \E s \in SIDS, kwargs \in VerbInputs : patch(s, kwargs)
    \/ \E s \in SIDS, kwargs \in VerbInputs : delete(s, kwargs)
    \/ \E b \in BOOLEAN : SetSafeMode(b)

SpecVerbs == Init /\ [][NextVerbs]_vars

\* The pool handle over the life of the sessions.
NextPool ==
    \/ \E s \in SIDS : request(s, BaseCall)
    \/ \E s \in SIDS : close(s)
    \/ \E s \in SIDS, k \in PoolKeys, v \in PoolSizes : SetConfig(s, k, v)
    \/ \E s \in SIDS : Export(s)
    \/ \E s \in SIDS : Restore(s)

SpecPool == Init /\ [][NextPool]_vars

\* What the body of a with-block ends with: nothing, or an exception.
BodyOutcomes == {None, Error("BodyError")}

ScopeCalls == {BaseCall, [BaseCall EXCEPT !.outcome = "TransportError"]}

\* Sessions used inside and outside with-blocks.
NextScope ==
    \/ \E s \in SIDS, kwargs \in ScopeCalls : request(s, kwargs)
    \/ \E s \in SIDS : enter(s)
    \/ \E s \in SIDS, exc \in BodyOutcomes : exit(s, exc)
    \/ \E s \in SIDS : close(s)

SpecScope == Init /\ [][NextScope]_vars

MutableKeys == {"base_headers"}

\* What client code writes into a mutable config value.
TouchEntries == {<<"Agent", Str("mine")>>, <<"X", Str("1")>>}

\* In-place changes of the sessions' configs.
NextConfig ==
    \/ \E s \in SIDS, k \in MutableKeys, e \in TouchEntries : TouchConfig(s, k, e[1], e[2])
    \/ \E s \in SIDS, k \in PoolKeys, v \in PoolSizes : SetConfig(s, k, v)

SpecConfig == Init /\ [][NextConfig]_vars

\* Requests that reuse the caller's mapping objects on both sessions.
NextCaller ==
    \/ \E s \in SIDS, kwargs \in CallerCalls : request(s, kwargs)
    \/ \E e \in CallerWrites : OwnWrite(e[1], e[2], e[3])

SpecCaller == Init /\ [][NextCaller]_vars

\* ------------------------------------------------------------------------
\* Several request flows on shared sessions
\* ------------------------------------------------------------------------

\* Calls made by the concurrent flows.
FlowCalls ==
    {BaseCall, [BaseCall EXCEPT !.cookies = Map([b |-> None, c |-> Str("3")])]}

\* The flows that are inside the loop of line 279 over the jar of Session s.
Iterating(s) == {f \in FLOWS : pc[f] = "iter" /\ flow[f].sid = s}

\* Lines 229-279: flow f enters request() on Session s, builds its own jar
\* and starts to iterate the session jar.
FlowBegin(f, s, kwargs) ==
    LET kw == SignatureDefaults(kwargs)
    IN  /\ pc[f] = "idle"
        /\ pc' = [pc EXCEPT ![f] = "iter"]
        /\ flow' = [flow EXCEPT ![f] = [sid |-> s, kw |-> kw, jar |-> CallJar(kw),
                                        todo |-> jars[sess[s].cookies]]]
        /\ UNCHANGED raced
        /\ UNCHANGED sessionVars
        /\ UNCHANGED mergeVars
        /\ UNCHANGED callerVars
        /\ UNCHANGED pipeVars
        /\ UNCHANGED configVars
        /\ UNCHANGED scopeVars

\* Lines 279-280: one turn of the loop.  An iteration that another flow
\* disturbed goes on over what it saw when it began.
FlowIter(f) ==
    /\ pc[f] = "iter"
    /\ \E c \in flow[f].todo :
          flow' = [flow EXCEPT ![f].jar = set_cookie(@, c), ![f].todo = @ \ {c}]
    /\ UNCHANGED <<pc, raced>>
    /\ UNCHANGED sessionVars
    /\ UNCHANGED mergeVars
    /\ UNCHANGED callerVars
    /\ UNCHANGED pipeVars
    /\ UNCHANGED configVars
    /\ UNCHANGED scopeVars

\* Lines 279-280: an iteration that another flow disturbed may also fail,
\* and request() raises.
FlowFail(f) ==
    /\ pc[f] = "iter"
    /\ f \in raced
    /\ pc' = [pc EXCEPT ![f] = "idle"]
    /\ flow' = [flow EXCEPT ![f] = IdleFlow]
    /\ raced' = raced \ {f}
    /\ op' = [name |-> "request", sid |-> flow[f].sid]
    /\ call' = flow[f].kw
    /\ args' = NoArgs
    /\ ret' = [kind |-> "raised", error |-> "RuntimeError", sid |-> flow[f].sid, sent |-> FALSE]
    /\ UNCHANGED <<sess, jars, nextHandle, safe_mode, snapshot, given, unset>>
    /\ UNCHANGED mergeVars
    /\ UNCHANGED callerVars
    /\ hookIn' = NoArgs
    /\ trace' = <<>>
    /\ UNCHANGED configVars
    /\ closes' = [closes EXCEPT ![flow[f].sid] = 0]
    /\ UNCHANGED scope

\* Lines 283-311: the loop is over; the flow purges, merges, dispatches the
\* hook, builds the request and sends it.
FlowFinish(f) ==
    LET s == flow[f].sid
        kw == flow[f].kw
        jar == remove_cookies(flow[f].jar, dead_cookies(kw.cookies))
    IN  /\ pc[f] = "iter"
        /\ flow[f].todo = {}
        /\ pc' = [pc EXCEPT ![f] = "idle"]
        /\ flow' = [flow EXCEPT ![f] = IdleFlow]
        /\ raced' = raced \ {f}
        /\ op' = [name |-> "request", sid |-> s]
        /\ call' = kw
        /\ args' = HookedArgsWith(s, kw, jar)
        /\ ret' = RequestReturn(s, kw)
        /\ sess' = SessAfter(s, kw, RequestReturn(s, kw))
        /\ given' = [given EXCEPT ![s] = @ \cup SuppliedNames(kw.cookies)]
        /\ UNCHANGED <<jars, nextHandle, safe_mode, snapshot, unset>>
        /\ UNCHANGED mergeVars
        /\ UNCHANGED callerVars
        /\ hookIn' = MergedArgsWith(s, kw, jar)
        /\ trace' = RequestTrace(kw)
        /\ UNCHANGED configVars
        /\ closes' = [closes EXCEPT ![s] = 0]
        /\ UNCHANGED scope

\* Flow f, outside request(), calls session.cookies.clear() on Session s;
\* nothing holds it back while other flows iterate that jar.
FlowClear(f, s) ==
    /\ pc[f] = "idle"
    /\ jars[sess[s].cookies] # {}
    /\ jars' = [jars EXCEPT ![sess[s].cookies] = {}]
    /\ raced' = raced \cup Iterating(s)
    /\ op' = [name |-> "clearcookies", sid |-> s]
    /\ call' = NoCall
    /\ args' = NoArgs
    /\ ret' = NoReturn
    /\ UNCHANGED <<sess, nextHandle, safe_mode, snapshot, given, unset>>
    /\ UNCHANGED <<pc, flow>>
    /\ UNCHANGED mergeVars
    /\ UNCHANGED callerVars
    /\ hookIn' = NoArgs
    /\ trace' = <<>>
    /\ UNCHANGED configVars
    /\ UNCHANGED scopeVars

NextThreads ==
    \/ \E f \in FLOWS, s \in SIDS, kwargs \in FlowCalls : FlowBegin(f, s, kwargs)
    \/ \E f \in FLOWS : FlowIter(f)
    \/ \E f \in FLOWS : FlowFail(f)
    \/ \E f \in FLOWS : FlowFinish(f)
    \/ \E f \in FLOWS, s \in SIDS : FlowClear(f, s)

SpecThreads == Init /\ [][NextThreads]_vars

\* ------------------------------------------------------------------------
\* merge_kwargs as a function of its two arguments
\* ------------------------------------------------------------------------

MergeKeys == {"a", "b"}

\* Every mapping from some of the keys ks to the values vs.
MapsOver(ks, vs) == {Map(m) : m \in UNION {[d -> vs] : d \in SUBSET ks}}

MergeLocals ==
    {None, Str("literal"), Str(""), Bool(FALSE), Num(0)}
    \cup MapsOver(MergeKeys, {None, Num(1), Num(2)})

MergeDefaults ==
    {None, Bool(TRUE), Num(5), Str("ca.pem")}
    \cup MapsOver(MergeKeys, {Num(1), Num(3)})

InitMerge ==
    /\ InitSessions
    /\ InitThreads
    /\ mLocal \in MergeLocals
    /\ mDefault \in MergeDefaults
    /\ mResult = Unset

\* merge_kwargs is applied to the drawn arguments.
Merge ==
    /\ mResult = Unset
    /\ mResult' = merge_kwargs(mLocal, mDefault)
    /\ UNCHANGED <<mLocal, mDefault>>
    /\ UNCHANGED sessionVars
    /\ UNCHANGED threadVars
    /\ UNCHANGED callerVars
    /\ UNCHANGED pipeVars
    /\ UNCHANGED configVars
    /\ UNCHANGED scopeVars

NextMerge == Merge

SpecMerge == InitMerge /\ [][NextMerge]_vars

\* ------------------------------------------------------------------------
\* Cookie reconciliation (C1, C2)
\* ------------------------------------------------------------------------

\* The last operation was a request() that got as far as building its args.
Requested == op.name \in RequestOps /\ args # NoArgs

\* The session jar of Session s.
SessionCookies(s) == jars[sess[s].cookies]

\* The names a call mapping maps to None.
DeadNames(cookies) == {name \in Keys(cookies) : cookies.v[name] = None}

\* What C1 says of a per-call jar, given the session jar as it was when the
\* call was made and the call's mapping.
Reconciled(jar, sjar, cookies) ==
    /\ \A c \in sjar : c.name \notin DeadNames(cookies) => c \in jar
    /\ \A name \in Keys(cookies) \ DeadNames(cookies) :
          \E c \in jar :
             /\ CookieKey(c) = CookieKey(create_cookie(name, cookies.v[name]))
             /\ (\A x \in sjar : CookieKey(x) # CookieKey(c)) => c.value = cookies.v[name]
    /\ \A c \in jar : c.name \notin DeadNames(cookies)
    /\ \A c \in jar : c \in sjar \/ c.name \in Keys(cookies)

\* C1: for every request() call whose cookies argument is a plain mapping,
\* the per-call jar is a new jar that holds every session cookie whose name
\* the call did not map to None, a cookie for every name the call gave a
\* value (carrying the call's value unless the session jar holds the same
\* key), and no cookie whose name the call mapped to None; the session's own
\* jar is the same after the call as before it.  With session {a:1, b:2} and
\* call {b:None, c:3} the per-call jar is exactly {a:1, c:3}.
C1_CookieReconciliation ==
    [][(op'.name \in RequestOps /\ args' # NoArgs /\ call'.cookies.t = "map") =>
          LET s == op'.sid
              sjar == jars[sess[s].cookies]
          IN  /\ args'.cookies.obj = FreshJar
              /\ Reconciled(args'.cookies.val, sjar, call'.cookies)
              /\ jars'[sess'[s].cookies] = sjar
              /\ (/\ sjar = {create_cookie("a", Str("1")), create_cookie("b", Str("2"))}
                  /\ call'.cookies = Map([b |-> None, c |-> Str("3")]))
                 => args'.cookies.val =
                       {create_cookie("a", Str("1")), create_cookie("c", Str("3"))}
      ]_vars

\* The example of C1 has happened: session {a:1, b:2}, call {b:None, c:3}.
C1_Witness ==
    /\ Requested
    /\ call.cookies = Map([b |-> None, c |-> Str("3")])
    /\ SessionCookies(op.sid) = {create_cookie("a", Str("1")), create_cookie("b", Str("2"))}
    /\ args.cookies.val = {create_cookie("a", Str("1")), create_cookie("c", Str("3"))}

\* C2: a request() call never changes the content of any session's jar and
\* never rebinds session.cookies; and a cookie that only an earlier call
\* supplied (it is neither in the session jar nor named by this call) is not
\* in this call's jar.
C2_SessionJarFrame ==
    [][(op'.name \in RequestOps /\ call'.cookies.t # "jar") =>
          /\ \A s \in SIDS : sess'[s].cookies = sess[s].cookies
          /\ \A s \in SIDS : jars'[sess[s].cookies] = jars[sess[s].cookies]
          /\ args' # NoArgs =>
                \A c \in args'.cookies.val :
                   (/\ c.name \in given[op'.sid]
                    /\ c.name \notin SuppliedNames(call'.cookies)) => c \in jars[sess[op'.sid].cookies]
      ]_vars

\* A call supplied cookie c, and a later call on the same session that does
\* not supply it has run without it.
C2_Witness ==
    /\ Requested
    /\ call.cookies = None
    /\ "c" \in given[op.sid]
    /\ \A c \in args.cookies.val : c.name # "c"
    /\ SessionCookies(op.sid) # {}

\* ------------------------------------------------------------------------
\* merge_kwargs (C3, C4, C5, C6)
\* ------------------------------------------------------------------------

\* C3: in a request() call, every key the call's mapping maps to None is
\* absent from the merged attribute, whether or not the session default has
\* it; the session's own mapping is left as it was, and a later call that
\* does not name the key gets the session's value for it again.
C3_NoneDeletesKey ==
    [][(op'.name \in RequestOps /\ args' # NoArgs) =>
          LET s == op'.sid
          IN  \A f \in MergedMaps :
                 /\ sess'[s][f] = sess[s][f]
                 /\ IsMap(call'[f]) =>
                       \A k \in Keys(call'[f]) :
                          call'[f].v[k] = None => k \notin Keys(args'[f])
                 /\ (/\ unset.sid = s
                     /\ unset.attr = f
                     /\ call'[f] = None
                     /\ unset.key \in Keys(sess[s][f]))
                    => /\ unset.key \in Keys(args'[f])
                       /\ args'[f].v[unset.key] = sess[s][f].v[unset.key]
      ]_vars

\* An earlier call unset the session header Accept; this call does not name
\* it and gets the session's value.
C3_Witness ==
    /\ Requested
    /\ call.headers = None
    /\ unset = [sid |-> op.sid, attr |-> "headers", key |-> "Accept"]
    /\ "Accept" \in Keys(args.headers)
    /\ args.headers.v["Accept"] = sess[op.sid].headers.v["Accept"]

\* The keys a local mapping maps to None.
NoneKeys(local) == {k \in Keys(local) : local.v[k] = None}

\* C4: when local and session_default are both mappings, the result holds
\* exactly the keys of either that local does not map to None; a key absent
\* from local has the session default's value and a key local maps to a
\* value has the local value.
C4_InheritAndOverlay ==
    (mResult # Unset /\ IsMap(mLocal) /\ IsMap(mDefault)) =>
        /\ IsMap(mResult)
        /\ Keys(mResult) = (Keys(mDefault) \cup Keys(mLocal)) \ NoneKeys(mLocal)
        /\ \A k \in Keys(mDefault) \ Keys(mLocal) : mResult.v[k] = mDefault.v[k]
        /\ \A k \in Keys(mLocal) \ NoneKeys(mLocal) : mResult.v[k] = mLocal.v[k]

\* Local overrides a, the default supplies b.
C4_Witness ==
    /\ mLocal = Map([a |-> Num(2)])
    /\ mDefault = Map([a |-> Num(1), b |-> Num(3)])
    /\ mResult = Map([a |-> Num(2), b |-> Num(3)])

\* C5 as claimed: with session_default None or the empty mapping, merge
\* returns local unchanged, for local None, a string or any mapping.
C5_IdentityLaw ==
    (/\ mResult # Unset
     /\ mDefault \in {None, EmptyMap}
     /\ (mLocal = None \/ IsStr(mLocal) \/ IsMap(mLocal)))
    => mResult = mLocal

\* C5 as amended: with session_default None merge returns local unchanged,
\* whatever local is; with session_default the empty mapping it returns
\* local unchanged when local is a string or a mapping without None-valued
\* keys, the empty mapping when local is None, and local without its
\* None-valued keys when local is a mapping.
C5_IdentityLawAmended ==
    mResult # Unset =>
        /\ mDefault = None => mResult = mLocal
        /\ (mDefault = EmptyMap /\ IsStr(mLocal)) => mResult = mLocal
        /\ (mDefault = EmptyMap /\ IsMap(mLocal) /\ NoneKeys(mLocal) = {}) => mResult = mLocal
        /\ (mDefault = EmptyMap /\ mLocal = None) => mResult = EmptyMap
        /\ (mDefault = EmptyMap /\ IsMap(mLocal)) =>
              mResult = Map(DictDel(mLocal.v, NoneKeys(mLocal)))

\* A None local met an empty session default.
C5_Witness ==
    /\ mLocal = None
    /\ mDefault = EmptyMap
    /\ mResult = EmptyMap

\* The attributes that are overridden, never merged key by key.
PlainFields == {"auth", "cert", "verify", "timeout", "prefetch"}

\* C6: for auth, cert, verify, timeout and prefetch the value request()
\* resolves is the call's value whenever the call gave one other than None
\* (False, 0 and strings included) and the session's value otherwise; and a
\* string local value is never merged with a session mapping.
C6_PlainOverride ==
    [][(op'.name \in RequestOps /\ args' # NoArgs) =>
          /\ \A f \in PlainFields :
                args'[f] = IF call'[f] # None THEN call'[f] ELSE sess[op'.sid][f]
          /\ merge_kwargs(Str("literal"), Map([a |-> Num(1)])) = Str("literal")
      ]_vars

\* The call passed verify=False to a session that verifies.
C6_Witness ==
    /\ Requested
    /\ call.verify = Bool(FALSE)
    /\ sess[op.sid].verify = Bool(TRUE)
    /\ args.verify = Bool(FALSE)
    /\ args.timeout = sess[op.sid].timeout
    /\ sess[op.sid].timeout = Num(5)

\* ------------------------------------------------------------------------
\* Safe mode (C7)
\* ------------------------------------------------------------------------

\* The last call was sent and the transport failed.
TransportFailed ==
    /\ Requested
    /\ call.return_response = Bool(TRUE)
    /\ call.outcome = "TransportError"

\* C7: when the send step of a verb call raises a transport error, then
\* with safe mode engaged the call returns a response that carries the
\* error, and with safe mode disengaged the error is raised to the caller.
C7_SafeMode ==
    TransportFailed =>
        IF safe_mode
        THEN ret.kind = "response" /\ ret.error = "TransportError"
        ELSE ret.kind = "raised" /\ ret.error = "TransportError"

\* get() failed at the transport with safe mode engaged.
C7_Witness ==
    /\ TransportFailed
    /\ op.name = "get"
    /\ safe_mode
    /\ ret = [kind |-> "response", error |-> "TransportError", sid |-> op.sid, sent |-> TRUE]

\* ------------------------------------------------------------------------
\* The pool handle and the snapshot (C9, C10)
\* ------------------------------------------------------------------------

\* The handle of Session s has the sizes its config names now.
PoolMatches(s) ==
    /\ sess[s].poolmanager.num_pools = DictGet(sess[s].config, "pool_connections")
    /\ sess[s].poolmanager.maxsize = DictGet(sess[s].config, "pool_maxsize")

\* C9 as claimed: in every reachable state the pool handle of a session was
\* built with the session's current pool_connections and pool_maxsize.
C9_PoolTracksConfig == \A s \in SIDS : PoolMatches(s)

HandleIds == {sess[s].poolmanager.id : s \in SIDS}

\* C9 as amended: the pool handle is built from the config's
\* pool_connections and pool_maxsize when the session is constructed and
\* when it is restored from a snapshot (a new handle each time); no other
\* operation, a change of those config values included, rebuilds the handle
\* or changes its sizes.
C9_PoolBuiltOnInitAndRestore ==
    /\ \A s \in SIDS : PoolMatches(s)
    /\ [][\A s \in SIDS :
            IF op'.name = "setstate" /\ op'.sid = s
            THEN /\ PoolMatches(s)'
                 /\ sess'[s].poolmanager.id \notin HandleIds
            ELSE /\ sess'[s].poolmanager.id = sess[s].poolmanager.id
                 /\ sess'[s].poolmanager.num_pools = sess[s].poolmanager.num_pools
                 /\ sess'[s].poolmanager.maxsize = sess[s].poolmanager.maxsize
         ]_vars

\* The config was changed after construction and the handle kept its sizes.
C9_Witness ==
    /\ op.name = "setconfig"
    /\ DictGet(sess[op.sid].config, "pool_connections") = Num(20)
    /\ sess[op.sid].poolmanager.num_pools = Num(10)

\* C10: an exported snapshot holds exactly the tracked attributes, with the
\* exporting session's values, and no pool handle; a session restored from
\* it has the snapshot's value for every tracked attribute and a pool handle
\* that is new (not the exporting session's, nor any other session's), holds
\* no connection and has the sizes the restored config names.
C10_SnapshotRoundTrip ==
    /\ snapshot # None => DOMAIN snapshot.state.v = attrs
    /\ op.name = "getstate" =>
          \A attr \in attrs :
             snapshot.state.v[attr] =
                IF attr = "cookies" THEN SessionCookies(op.sid) ELSE sess[op.sid][attr]
    /\ op.name = "setstate" =>
          /\ \A attr \in attrs :
                snapshot.state.v[attr] =
                   IF attr = "cookies" THEN SessionCookies(op.sid) ELSE sess[op.sid][attr]
          /\ sess[op.sid].poolmanager.id # snapshot.handle
          /\ \A x \in SIDS \ {op.sid} : sess[x].poolmanager.id # sess[op.sid].poolmanager.id
          /\ sess[op.sid].poolmanager.pools = {}
          /\ PoolMatches(op.sid)

\* Session 2 has been restored from a snapshot of the richly configured
\* session 1, taken after its config was changed.
C10_Witness ==
    /\ op = [name |-> "setstate", sid |-> 2]
    /\ snapshot.from = 1
    /\ sess[2].headers = RichCtor.headers
    /\ SessionCookies(2) = cookiejar_from_dict(RichCtor.cookies)
    /\ sess[2].poolmanager.num_pools = Num(20)
    /\ sess[2].poolmanager.id # sess[1].poolmanager.id

\* ------------------------------------------------------------------------
\* Concurrent use of one Session (C8)
\* ------------------------------------------------------------------------

\* C8: access to session.cookies is serialized per Session: no step changes
\* the jar of a session while a request() flow on that session is in the
\* middle of iterating it in the cookie reconciliation.
C8_CookieJarMutualExclusion ==
    [][\A s \in SIDS :
          jars'[sess[s].cookies] # jars[sess[s].cookies] => Iterating(s) = {}
      ]_vars

\* ------------------------------------------------------------------------
\* Scoped acquisition and close (C11, C12)
\* ------------------------------------------------------------------------

Pools(s) == sess[s].poolmanager.pools

\* C11: whenever the with-block around a Session is left, on the normal
\* path and on the error path alike, close() has run exactly once on the
\* way out and the session holds no pooled connection; inside the block
\* it has not run yet.
C11_ScopedClose ==
    [][\A s \in SIDS :
          /\ scope'[s].st = "in" => scope'[s].closed = 0
          /\ (scope[s].st = "in" /\ scope'[s].st # "in") =>
                /\ op' = [name |-> "exit", sid |-> s]
                /\ scope'[s].st \in {"left", "raised"}
                /\ scope'[s].closed = 1
                /\ sess'[s].poolmanager.pools = {}]_vars

\* One block was left by an exception and the other normally, each closed
\* once, the one just left having held a connection before.
C11_Witness ==
    \E s, u \in SIDS :
        /\ scope[s].st = "raised" /\ scope[s].closed = 1
        /\ scope[u].st = "left" /\ scope[u].closed = 1
        /\ op = [name |-> "exit", sid |-> s]
        /\ Pools(s) = {}

\* C12: close() never fails and leaves no pooled connection; a close()
\* that follows another close() on the same session, with no other operation on
\* it in between, changes nothing of the sessions and their jars.
C12_CloseIdempotent ==
    [][\A s \in SIDS :
          (op' = [name |-> "close", sid |-> s] /\ closes'[s] > closes[s]) =>
              /\ ret'.kind # "raised"
              /\ sess'[s].poolmanager.pools = {}
              /\ closes[s] >= 1 => (sess' = sess /\ jars' = jars)]_vars

\* close() was called twice in a row on one session, in a run where
\* requests pooled connections (the other session still holds one).
C12_Witness ==
    \E s, u \in SIDS :
        /\ op = [name |-> "close", sid |-> s]
        /\ closes[s] = 2
        /\ Pools(s) = {}
        /\ Pools(u) # {}

\* ------------------------------------------------------------------------
\* Verb defaults (C13)
\* ------------------------------------------------------------------------

\* C13: a get or options call that gives no allow_redirects is made with
\* allow_redirects true, a head call with allow_redirects false; a value
\* the caller gives is the one used.
C13_VerbRedirectDefaults ==
    (op.name \in {"get", "options", "head"} /\ args # NoArgs) =>
        args.allow_redirects =
            IF call.allow_redirects # Unset THEN call.allow_redirects
            ELSE Bool(op.name # "head")

\* A head call that gave no allow_redirects went out with it false.
C13_Witness ==
    /\ op.name = "head"
    /\ call.allow_redirects = Unset
    /\ args.method = "HEAD"
    /\ args.allow_redirects = Bool(FALSE)
    /\ ret.sent

\* ------------------------------------------------------------------------
\* Cookie precedence (C15)
\* ------------------------------------------------------------------------

\* The cookies a call supplies: those of the jar it passes, or one for
\* every name its mapping gives a value.
SuppliedCookies(cookies) ==
    IF cookies = None THEN {}
    ELSE IF cookies.t = "jar" THEN jars[cookies.v]
    ELSE {create_cookie(name, cookies.v[name]) : name \in Keys(cookies) \ DeadNames(cookies)}

\* C15: when the session jar holds a cookie with the same key (name,
\* domain, path) as a cookie the call supplied with a value, the per-call
\* jar holds the session's cookie under that key and nothing else.
C15_SessionCookieWins ==
    [][(op'.name \in RequestOps /\ args' # NoArgs) =>
          LET sjar == jars[sess[op'.sid].cookies]
          IN  \A c \in SuppliedCookies(call'.cookies), x \in sjar :
                 CookieKey(c) = CookieKey(x) =>
                    /\ x \in args'.cookies.val
                    /\ \A y \in args'.cookies.val : CookieKey(y) = CookieKey(x) => y = x
      ]_vars

\* The call gave a = 9, the session jar holds a = 1, and the per-call jar
\* holds a = 1.
C15_Witness ==
    /\ Requested
    /\ call.cookies = Map([a |-> Str("9")])
    /\ create_cookie("a", Str("1")) \in SessionCookies(op.sid)
    /\ create_cookie("a", Str("1")) \in args.cookies.val
    /\ create_cookie("a", Str("9")) \notin args.cookies.val

\* ------------------------------------------------------------------------
\* Hook precedence (C16)
\* ------------------------------------------------------------------------

\* C16: in the hooks a request() call resolves, every event name the call's
\* hooks give handlers for carries exactly the call's handlers, every event
\* name only the session registers carries the session's handlers, and no
\* other event name appears (an event name the call maps to None is absent,
\* the session's handlers for it are not used).
C16_HookPrecedence ==
    [][(op'.name \in RequestOps /\ args' # NoArgs) =>
          LET own == sess[op'.sid].hooks
              local == IF call'.hooks = None THEN EmptyMap ELSE call'.hooks
          IN  /\ \A k \in Keys(local) :
                    IF local.v[k] = None THEN k \notin Keys(args'.hooks)
                    ELSE k \in Keys(args'.hooks) /\ args'.hooks.v[k] = local.v[k]
              /\ \A k \in Keys(own) \ Keys(local) :
                    k \in Keys(args'.hooks) /\ args'.hooks.v[k] = own.v[k]
              /\ Keys(args'.hooks) \subseteq Keys(local) \cup Keys(own)
      ]_vars

\* The call and the session both registered a handler for 'args': the call's
\* is the one resolved and the session's did not run, while 'response', which
\* only the session registered, carries the session's handler.
C16_Witness ==
    /\ Requested
    /\ call.hooks = Map([args |-> Str("call_keep")])
    /\ sess[op.sid].hooks = Map([args |-> Str("session_rewrite"), response |-> Str("session_log")])
    /\ args.hooks = Map([args |-> Str("call_keep"), response |-> Str("session_log")])
    /\ args.url # "hooked"

\* ------------------------------------------------------------------------
\* A jar passed by the caller (C19)
\* ------------------------------------------------------------------------

\* C19: when the cookies argument is a jar, that very jar is the per-call
\* jar: after the call it holds every cookie of the session, each cookie it
\* held before is still there unless a session cookie with the same key
\* replaced it, nothing else was added or purged, and the session's own jar
\* is as before.
C19_CallerJarWritten ==
    [][(op'.name \in RequestOps /\ args' # NoArgs /\ call'.cookies.t = "jar") =>
          LET j == call'.cookies.v
              sjar == jars[sess[op'.sid].cookies]
          IN  /\ args'.cookies.obj = j
              /\ args'.cookies.val = jars'[j]
              /\ sjar \subseteq jars'[j]
              /\ \A x \in jars[j] :
                    x \in jars'[j] \/ \E c \in sjar : CookieKey(c) = CookieKey(x)
              /\ jars'[j] \subseteq jars[j] \cup sjar
              /\ jars'[sess'[op'.sid].cookies] = sjar
      ]_vars

\* The caller's jar, written by a call on the first session, was passed to a
\* call on a session whose own jar lacks a = 1: that call carries a = 1.
C19_Witness ==
    /\ Requested
    /\ call.cookies = JarRef(CallerJar)
    /\ args.cookies.obj = CallerJar
    /\ create_cookie("a", Str("1")) \notin SessionCookies(op.sid)
    /\ create_cookie("a", Str("1")) \in args.cookies.val
    /\ ret.sent

\* ------------------------------------------------------------------------
\* Config seeding and isolation (C14)
\* ------------------------------------------------------------------------

\* The config of Session s holds what its constructor was given and the
\* documented default for every other default key.
Seeded(s) ==
    LET own == IF ctor[s].config = None THEN EmptyMap ELSE ctor[s].config
    IN  /\ Keys(sess[s].config) = Keys(own) \cup Keys(defaults)
        /\ \A k \in Keys(own) : sess[s].config.v[k] = own.v[k]
        /\ \A k \in Keys(defaults) \ Keys(own) : sess[s].config.v[k] = defaults.v[k]

\* C14: a newly constructed session's config holds the caller's value for
\* every key the caller supplied and the documented default for every
\* default key the caller omitted; and an in-place change of one session's
\* config or of a value in it changes neither the shared defaults table nor
\* the config of any other session.
C14_ConfigSeededAndIsolated ==
    [][/\ op.name = "init" => \A s \in SIDS : Seeded(s)
       /\ op'.name \in {"touchconfig", "setconfig"} =>
             /\ table' = table
             /\ sess'[op'.sid].config # sess[op'.sid].config
             /\ \A u \in SIDS \ {op'.sid} : sess'[u].config = sess[u].config]_vars

\* The first session, built with its own pool_maxsize, changed its
\* base_headers in place: the table and the second session still hold the
\* documented value.
C14_Witness ==
    /\ op = [name |-> "touchconfig", sid |-> 1]
    /\ ctor[1].config = Map([pool_maxsize |-> Num(20)])
    /\ sess[1].config.v["pool_connections"] = Num(10)
    /\ sess[1].config.v["base_headers"] = Map([Agent |-> Str("mine")])
    /\ sess[2].config.v["base_headers"] = Map([Agent |-> Str("python-requests")])
    /\ table = defaults

\* ------------------------------------------------------------------------
\* The order of the stages of one call (C17)
\* ------------------------------------------------------------------------

\* The positions of stage x in the trace tr.
At(tr, x) == {i \in DOMAIN tr : tr[i] = x}

\* The stages of tr are in the order of C17; sent tells whether the call
\* asked for the response.
Ordered(tr, sent) ==
    /\ Cardinality(At(tr, "hook")) = 1
    /\ Cardinality(At(tr, "construct")) = 1
    /\ At(tr, "cookies") # {} /\ At(tr, "merge") # {}
    /\ \A i \in At(tr, "cookies") \cup At(tr, "merge") : \A j \in At(tr, "hook") : i < j
    /\ \A i \in At(tr, "hook") : \A j \in At(tr, "construct") : i < j
    /\ \A i \in At(tr, "construct") : \A j \in At(tr, "send") : i < j
    /\ Cardinality(At(tr, "send")) = IF sent THEN 1 ELSE 0

\* The args a is fully merged for a call kw on a session with the given
\* attributes and jar: the session's cookies, headers and scalar defaults
\* the call did not override are all in it.
FullyMerged(a, kw, session, sjar) ==
    /\ \A c \in sjar : c.name \notin dead_cookies(kw.cookies) => c \in a.cookies.val
    /\ \A f \in MergedMaps :
          \A k \in Keys(session[f]) :
             (kw[f] = None \/ k \notin Keys(kw[f])) =>
                 k \in Keys(a[f]) /\ a[f].v[k] = session[f].v[k]
    /\ \A f \in PlainFields : kw[f] = None => a[f] = session[f]

\* C17: in one request() call the cookie reconciliation and the merge come
\* before the 'args' hook; the hook is dispatched exactly once, on the fully
\* merged args; the request is constructed after it, from the mapping the
\* hook chain returned; and the send comes after the construction exactly
\* when return_response is true, otherwise the request is returned unsent.
C17_PipelineOrder ==
    [][(op'.name \in RequestOps /\ args' # NoArgs) =>
          /\ Ordered(trace', call'.return_response = Bool(TRUE))
          /\ FullyMerged(hookIn', call', sess[op'.sid], jars[sess[op'.sid].cookies])
          /\ args' = dispatch_hook("args", hookIn'.hooks, hookIn')
          /\ call'.return_response = Bool(FALSE) =>
                ret'.kind = "request" /\ ~ret'.sent
          /\ call'.return_response = Bool(TRUE) => ret'.sent
      ]_vars

\* A call with return_response false on a session with an 'args' hook: the
\* hook got the merged args, the request was built from what the hook
\* returned, and nothing was sent.
C17_Witness ==
    /\ Requested
    /\ call.return_response = Bool(FALSE)
    /\ hookIn.url = "http://h/"
    /\ hookIn.headers = sess[op.sid].headers
    /\ Keys(hookIn.headers) # {}
    /\ args.url = "hooked"
    /\ trace = <<"cookies", "merge", "hook", "construct">>
    /\ ret.kind = "request"

\* ------------------------------------------------------------------------
\* Mappings passed by the caller (C20)
\* ------------------------------------------------------------------------

\* C20: request() writes into the hooks and headers mappings the caller
\* passed: after the call the caller's hooks mapping holds what it held and,
\* in addition, every session hook whose event name it lacked; the caller's
\* headers mapping holds the expanded form of each of its values; and the
\* call runs with the hooks the mapping held when it was passed.
C20_CallerMappingsWritten ==
    [][op'.name \in RequestOps =>
          /\ IsRef(call'.hooks) =>
                LET h == owned[call'.hooks.v]
                    after == owned'[call'.hooks.v]
                    own == sess[op'.sid].hooks
                IN  /\ Keys(after) = Keys(h) \cup Keys(own)
                    /\ \A k \in Keys(h) : after.v[k] = h.v[k]
                    /\ \A k \in Keys(own) \ Keys(h) : after.v[k] = own.v[k]
                    /\ args' # NoArgs =>
                          \A k \in Keys(h) :
                             h.v[k] # None => args'.hooks.v[k] = h.v[k]
          /\ IsRef(call'.headers) =>
                LET h == owned[call'.headers.v]
                    after == owned'[call'.headers.v]
                IN  /\ Keys(after) = Keys(h)
                    /\ \A k \in Keys(h) : after.v[k] = header_expand(h.v[k])
      ]_vars

\* The caller's hooks mapping, filled by a call on the first session, was
\* passed to a call on the second session, which registers no hook: the
\* first session's 'args' hook ran there; the caller's headers mapping
\* holds the joined form of the value it was given as a sequence.
C20_Witness ==
    /\ Requested
    /\ op.sid = 2
    /\ IsRef(call.hooks)
    /\ sess[2].hooks = EmptyMap
    /\ owned["hooks"] = Map([response |-> Str("call_log"), args |-> Str("session_rewrite")])
    /\ args.hooks = owned["hooks"]
    /\ args.url = "hooked"
    /\ owned["headers"].v["Accept"] = Str("text, json")
====
